---- MODULE Spec2Model ----
(***************************************************************************)
(* txsessionmgr: one Session per client key, shared by the clients of that *)
(* key.  The model follows SessionManager.py: Session.deferred_login,      *)
(* Session.deferred_logout and the SessionManager registry operations,     *)
(* run as Twisted inlineCallbacks coroutines on a single reactor thread.   *)
(* A coroutine runs without interruption up to the Deferred it yields on;  *)
(* when a Deferred fires, every coroutine waiting on it resumes, in the    *)
(* order the waiters were added, before the reactor does anything else.    *)
(***************************************************************************)
EXTENDS Integers, FiniteSets, Sequences, TLC

\* ------------------------------------------------------------------ bounds
\* Login operations started in one behaviour.  A Session object is created
\* only by a call that goes on to start a login on it, so this bounds the
\* Session objects too.
MaxLogins == 2

\* ----------------------------------------------------------------- clients
None == "None"

Keys == {"k1", "k2"}
\* the keys a dict lookup can be made with
KeySpace == Keys \cup {None}

\* A and B share a key, C has a key of its own, N has key None and X has no
\* key attribute at all.
Clients == {"A", "B", "C", "N", "X"}

HasKey(c) == c # "X"

ClientKey(c) == CASE c \in {"A", "B"} -> "k1"
                  [] c = "C" -> "k2"
                  [] OTHER -> None

\* What the login operation of a Session subclass produces: a token (taken
\* to be a true value, as the tests on _token require of a live session) or
\* an exception.  The code never compares two tokens or two errors, so each
\* login has a token and an error of its own.
TokenOf(l) == "T" \o ToString(l)
ErrorOf(l) == "E" \o ToString(l)
LoginOutcomes(l) == {[ok |-> TRUE, val |-> TokenOf(l)],
                     [ok |-> FALSE, val |-> ErrorOf(l)]}

SessionIds == 1..MaxLogins
LoginIds == 1..MaxLogins

\* The clients that exist in one behaviour: two clients sharing a key next to
\* the two clients without a usable key, or two clients with a key each.
Populations == {{"A", "B", "N", "X"}, {"A", "C"}}

\* Python truth value of a token or of a stored error
Truthy(v) == v # None

\* results handed to the callers
NoResult == [kind |-> "none", val |-> None]
Returned(v) == [kind |-> "return", val |-> v]
Raised(e) == [kind |-> "raise", val |-> e]

\* A result is handed to the caller in the step that ends its call; resC and
\* resD hold the results handed out by the last step.
Nothing == [x \in Clients |-> NoResult]
Deliver(c, r) == [x \in Clients |-> IF x = c THEN r ELSE NoResult]

VARIABLES
    sessions,     \* SessionManager._sessions: key -> Session id, 0 when absent
    nSessions,    \* Session objects created so far
    skey,         \* the key each Session object was registered under
    clients,      \* Session._clients
    token,        \* Session._token
    login_d,      \* Session._login_d: a login id, 0 for None
    login_error,  \* Session._login_error
    nLogins,      \* _deferred_login calls made so far
    called,       \* Deferred.called of each login
    loginSess,    \* the Session each login was started by
    conn,         \* per client, its init_connection call: pc, session, login
    resC,         \* results of the init_connection calls the last step ended
    disc,         \* per client, its close_connection call: pc, session
    resD,         \* results of the close_connection calls the last step ended
    live,         \* the clients that exist in this behaviour
    ev,           \* the call or callback that ran last
    undisturbed,  \* per Session: created, first login pending, and no
                  \* close_connection or remove_connection for its key since
    refc          \* per key: progress of two clients disconnecting in turn

vars == <<sessions, nSessions, skey, clients, token, login_d, login_error,
          nLogins, called, loginSess, conn, resC, disc, resD, live, ev,
          undisturbed, refc>>

Idle == [pc |-> "idle", s |-> 0, l |-> 0]

Init ==
    /\ sessions = [k \in KeySpace |-> 0]
    /\ nSessions = 0
    /\ skey = [s \in SessionIds |-> None]
    /\ clients = [s \in SessionIds |-> {}]
    /\ token = [s \in SessionIds |-> None]
    /\ login_d = [s \in SessionIds |-> 0]
    /\ login_error = [s \in SessionIds |-> None]
    /\ nLogins = 0
    /\ called = [l \in LoginIds |-> FALSE]
    /\ loginSess = [l \in LoginIds |-> 0]
    /\ conn = [c \in Clients |-> Idle]
    /\ resC = Nothing
    /\ disc = [c \in Clients |-> Idle]
    /\ resD = Nothing
    /\ live \in Populations
    /\ ev = [op |-> "init", who |-> None, arg |-> None]
    /\ undisturbed = [s \in SessionIds |-> FALSE]
    /\ refc = [k \in Keys |-> 0]

\* ---------------------------------------------------------------- monitors
\* No call of a client of this key is suspended.
Quiescent(key) ==
    \A c \in live : ClientKey(c) = key =>
        conn[c].pc = "idle" /\ disc[c].pc = "idle"

\* A close_connection or remove_connection for this key runs.
Disturb(key) == [s \in SessionIds |-> undisturbed[s] /\ skey[s] # key]

ResetRefc(key) == IF key \in Keys THEN [refc EXCEPT ![key] = 0] ELSE refc

\* Stage 1: a client disconnects from a Session that holds a token and has
\* exactly two clients, no call suspended.  Stage 2: the remaining client
\* calls close_connection next.  Stage 3: its logout ends next.
RefcOnClose(c) ==
    LET key == ClientKey(c)
        s == IF key \in Keys THEN sessions[key] ELSE 0
    IN  IF key \notin Keys THEN refc
        ELSE IF /\ s # 0
                /\ Quiescent(key)
                /\ c \in clients[s]
                /\ Cardinality(clients[s]) = 2
                /\ token[s] # None
        THEN [refc EXCEPT ![key] = 1]
        ELSE IF refc[key] = 1 /\ s # 0 /\ c \in clients[s]
        THEN [refc EXCEPT ![key] = 2]
        ELSE [refc EXCEPT ![key] = 0]

RefcOnLogoutEnd(c) ==
    LET key == ClientKey(c)
    IN  IF key \notin Keys THEN refc
        ELSE [refc EXCEPT ![key] = IF refc[key] = 2 THEN 3 ELSE 0]

\* --------------------------------------------------------- SessionManager
\* get_connection without its test for a None key
get_connectionUnchecked(key) == [exc |-> None, session |-> sessions[key]]

\* get_connection: raises on a None key, else the dict lookup.
get_connection(key) ==
    IF key = None
    THEN [exc |-> "EmptyKey", session |-> 0]
    ELSE [exc |-> None, session |-> sessions[key]]

\* the whole dict cleared instead of one key popped
popAll(key) == [k \in KeySpace |-> 0]

\* self._sessions.pop(key) on a key that is present.
pop(key) == [sessions EXCEPT ![key] = 0]

\* a login is started only while _login_d is None
StartsLoginOnce(s) == login_d[s] = 0

\* every caller starts a login of its own
StartsLoginAlways(s) == TRUE

\* deferred_login's test for starting a login of its own.
StartsLogin(s) == login_d[s] = 0 \/ called[login_d[s]]

\* the test for the last client, off by one
LastClientOffByOne(s) == Cardinality(clients[s]) <= 2

\* deferred_logout's test for being the last client.
LastClient(s) == Cardinality(clients[s]) <= 1

\* the membership test of init_connection, inverted
AttachIfAbsentInverted(cl, c) == IF c \in cl THEN cl \cup {c} ELSE cl

\* init_connection attaching a client to a Session that holds a token.
AttachIfAbsent(cl, c) == IF c \notin cl THEN cl \cup {c} ELSE cl

\* Session.deferred_login up to its first yield, for a call of client c on
\* Session s.
deferred_login(c, s) ==
    /\ clients' = [clients EXCEPT ![s] = @ \cup {c}]
    /\ IF Truthy(token[s])
       THEN /\ resC' = Deliver(c, Returned(token[s]))
            /\ UNCHANGED <<conn, login_d, nLogins, loginSess>>
       ELSE IF StartsLogin(s)
       THEN /\ nLogins < MaxLogins
            /\ nLogins' = nLogins + 1
            /\ login_d' = [login_d EXCEPT ![s] = nLogins + 1]
            /\ loginSess' = [loginSess EXCEPT ![nLogins + 1] = s]
            /\ conn' = [conn EXCEPT ![c] = [pc |-> "login", s |-> s, l |-> nLogins + 1]]
            /\ resC' = Nothing
       ELSE /\ conn' = [conn EXCEPT ![c] = [pc |-> "wait", s |-> s, l |-> login_d[s]]]
            /\ resC' = Nothing
            /\ UNCHANGED <<login_d, nLogins, loginSess>>

\* SessionManager.init_connection up to its first yield.
init_connection(c) ==
    /\ conn[c].pc = "idle"
    /\ c \in live
    /\ ev' = [op |-> "init_connection", who |-> c, arg |-> None]
    /\ refc' = ResetRefc(ClientKey(c))
    /\ resD' = Nothing
    /\ UNCHANGED <<token, login_error, called, disc, live>>
    /\ IF ~HasKey(c)
       THEN /\ resC' = Deliver(c, Raised("NoKeyField"))
            /\ UNCHANGED <<sessions, nSessions, skey, clients, login_d,
                           nLogins, loginSess, conn, undisturbed>>
       ELSE LET got == get_connection(ClientKey(c)) IN
            IF got.exc # None
            THEN /\ resC' = Deliver(c, Raised(got.exc))
                 /\ UNCHANGED <<sessions, nSessions, skey, clients, login_d,
                                nLogins, loginSess, conn, undisturbed>>
            ELSE IF got.session # 0 /\ Truthy(token[got.session])
            THEN /\ clients' = [clients EXCEPT ![got.session] = AttachIfAbsent(@, c)]
                 /\ resC' = Deliver(c, Returned(token[got.session]))
                 /\ UNCHANGED <<sessions, nSessions, skey, login_d,
                                nLogins, loginSess, conn, undisturbed>>
            ELSE IF got.session = 0
            THEN /\ nSessions < MaxLogins
                 /\ nSessions' = nSessions + 1
                 /\ sessions' = [sessions EXCEPT ![ClientKey(c)] = nSessions + 1]
                 /\ skey' = [skey EXCEPT ![nSessions + 1] = ClientKey(c)]
                 /\ undisturbed' = [undisturbed EXCEPT ![nSessions + 1] = TRUE]
                 /\ deferred_login(c, nSessions + 1)
            ELSE /\ UNCHANGED <<sessions, nSessions, skey, undisturbed>>
                 /\ deferred_login(c, got.session)

\* the coroutine that started login l and yielded on it
Starters(l) == {c \in Clients : conn[c].pc = "login" /\ conn[c].l = l}

\* the coroutines that joined login l are never resumed
JoinersLost(l) == {}

\* the coroutines that found login l in flight and yielded on it
Joiners(l) == {c \in Clients : conn[c].pc = "wait" /\ conn[c].l = l}

\* The login Deferred l fires with outcome o.  The coroutine that started
\* the login resumes first (it stores the token, or the error, and ends),
\* then the coroutines that joined, each reading the Session's fields.
LoginSettle(l, o) ==
    /\ l \in 1..nLogins
    /\ ~called[l]
    /\ LET s == loginSess[l]
           starters == Starters(l)
           joiners == Joiners(l)
           tok == IF o.ok THEN o.val ELSE token[s]
           err == IF o.ok THEN login_error[s] ELSE o.val
       IN /\ called' = [called EXCEPT ![l] = TRUE]
          /\ token' = [token EXCEPT ![s] = tok]
          /\ login_error' = [login_error EXCEPT ![s] = err]
          /\ resC' = [c \in Clients |->
                        IF c \in starters
                        THEN IF o.ok THEN Returned(o.val) ELSE Raised(o.val)
                        ELSE IF c \in joiners
                        THEN IF Truthy(err) THEN Raised(err) ELSE Returned(tok)
                        ELSE NoResult]
          /\ conn' = [c \in Clients |->
                        IF c \in starters \cup joiners THEN Idle ELSE conn[c]]
    /\ ev' = [op |-> "LoginSettle", who |-> l,
              arg |-> IF undisturbed[loginSess[l]] THEN "batch" ELSE None]
    /\ undisturbed' = [undisturbed EXCEPT ![loginSess[l]] = FALSE]
    /\ refc' = ResetRefc(skey[loginSess[l]])
    /\ UNCHANGED live
    /\ resD' = Nothing
    /\ UNCHANGED <<sessions, nSessions, skey, clients, login_d, nLogins,
                   loginSess, disc>>

\* close_connection ending without the pop of the registry entry
FinishCloseKeep(c, s, left) ==
    /\ resD' = Deliver(c, Returned(None))
    /\ UNCHANGED sessions

\* The end of close_connection for client c released from Session s: the
\* registry entry of the client's key is popped when s has no client left,
\* and dict.pop raises KeyError when the key is gone.
FinishClose(c, s, left) ==
    IF left = {}
    THEN IF sessions[ClientKey(c)] = 0
         THEN /\ resD' = Deliver(c, Raised("KeyError"))
              /\ UNCHANGED sessions
         ELSE /\ resD' = Deliver(c, Returned(None))
              /\ sessions' = pop(ClientKey(c))
    ELSE /\ resD' = Deliver(c, Returned(None))
         /\ UNCHANGED sessions

\* SessionManager.close_connection with Session.deferred_logout, up to the
\* yield on the logout operation, or to the end when there is no logout.
close_connection(c) ==
    /\ disc[c].pc = "idle"
    /\ c \in live
    /\ ev' = [op |-> "close_connection", who |-> c, arg |-> None]
    /\ undisturbed' = Disturb(ClientKey(c))
    /\ refc' = RefcOnClose(c)
    /\ UNCHANGED live
    /\ resC' = Nothing
    /\ UNCHANGED <<nSessions, skey, login_d, login_error, nLogins, called,
                   loginSess, conn>>
    /\ IF ~HasKey(c)
       THEN /\ resD' = Deliver(c, Raised("AttributeError"))
            /\ UNCHANGED <<sessions, clients, token, disc>>
       ELSE LET got == get_connection(ClientKey(c)) IN
            IF got.exc # None
            THEN /\ resD' = Deliver(c, Raised(got.exc))
                 /\ UNCHANGED <<sessions, clients, token, disc>>
            ELSE IF got.session = 0
            THEN /\ resD' = Deliver(c, Returned(None))
                 /\ UNCHANGED <<sessions, clients, token, disc>>
            ELSE LET s == got.session IN
                 IF LastClient(s) /\ Truthy(token[s])
                 THEN /\ disc' = [disc EXCEPT ![c] = [pc |-> "logout", s |-> s, l |-> 0]]
                      /\ resD' = Nothing
                      /\ UNCHANGED <<sessions, clients, token>>
                 ELSE /\ token' = IF LastClient(s)
                                  THEN [token EXCEPT ![s] = None]
                                  ELSE token
                      /\ clients' = [clients EXCEPT ![s] = @ \ {c}]
                      /\ FinishClose(c, s, clients[s] \ {c})
                      /\ UNCHANGED disc

\* The logout operation client c is suspended in ends, normally or by an
\* exception (which deferred_logout swallows); deferred_logout and
\* close_connection run to their end.
LogoutSettle(c, raises) ==
    /\ disc[c].pc = "logout"
    /\ LET s == disc[c].s IN
         /\ token' = [token EXCEPT ![s] = None]
         /\ clients' = [clients EXCEPT ![s] = @ \ {c}]
         /\ FinishClose(c, s, clients[s] \ {c})
    /\ disc' = [disc EXCEPT ![c] = Idle]
    /\ ev' = [op |-> "LogoutSettle", who |-> c,
              arg |-> IF raises THEN "raise" ELSE "return"]
    /\ undisturbed' = Disturb(ClientKey(c))
    /\ refc' = RefcOnLogoutEnd(c)
    /\ UNCHANGED live
    /\ resC' = Nothing
    /\ UNCHANGED <<nSessions, skey, login_d, login_error, nLogins, called,
                   loginSess, conn>>

\* SessionManager.remove_connection.
remove_connection(key) ==
    /\ LET got == get_connection(key) IN
         IF got.exc = None /\ got.session # 0
         THEN sessions' = pop(key)
         ELSE UNCHANGED sessions
    /\ ev' = [op |-> "remove_connection", who |-> key, arg |-> None]
    /\ undisturbed' = Disturb(key)
    /\ refc' = ResetRefc(key)
    /\ UNCHANGED live
    /\ resC' = Nothing
    /\ resD' = Nothing
    /\ UNCHANGED <<nSessions, skey, clients, token, login_d, login_error,
                   nLogins, called, loginSess, conn, disc>>

Next ==
    \/ \E c \in Clients : init_connection(c)
    \/ \E l \in LoginIds : \E o \in LoginOutcomes(l) : LoginSettle(l, o)
    \/ \E c \in Clients : close_connection(c)
    \/ \E c \in Clients, raises \in BOOLEAN : LogoutSettle(c, raises)
    \/ \E key \in Keys : remove_connection(key)

Spec == Init /\ [][Next]_vars

\* The callers use init_connection and close_connection only.
NextConnectDisconnect ==
    \/ \E c \in Clients : init_connection(c)
    \/ \E l \in LoginIds : \E o \in LoginOutcomes(l) : LoginSettle(l, o)
    \/ \E c \in Clients : close_connection(c)
    \/ \E c \in Clients, raises \in BOOLEAN : LogoutSettle(c, raises)

SpecConnectDisconnect == Init /\ [][NextConnectDisconnect]_vars

\* Every login operation and every logout operation that was started fires
\* its Deferred, with a result or with a failure.
OperationsSettle ==
    /\ \A l \in LoginIds :
         WF_vars(\E o \in LoginOutcomes(l) : LoginSettle(l, o))
    /\ \A c \in Clients :
         WF_vars(\E raises \in BOOLEAN : LogoutSettle(c, raises))

LiveSpec == Spec /\ OperationsSettle

\* -------------------------------------------------------------- properties
KeyedClients == {c \in Clients : HasKey(c) /\ ClientKey(c) \in Keys}

\* the logins of a key that have been started and have not fired
InFlight(key) ==
    {l \in 1..nLogins : ~called[l] /\ skey[loginSess[l]] = key}

\* the clients of a key suspended in the logout operation
InLogout(key) ==
    {c \in KeyedClients : ClientKey(c) = key /\ disc[c].pc = "logout"}

\* C1: single-flight.  The clients that call init_connection on a Session
\* from its creation on, with no close_connection or remove_connection for
\* the key in between, all end their call in the step in which the first
\* login of the Session fires; that login is the only login the Session has
\* started, and every call ends with that login's outcome: the token it
\* produced (now the Session's token) or the error it raised.
SingleFlight ==
    [][(ev'.op = "LoginSettle" /\ ev'.arg = "batch") =>
        LET l == ev'.who
            s == loginSess[l]
            batch == {c \in Clients : conn[c].pc # "idle" /\ conn[c].s = s}
        IN  /\ Cardinality({m \in 1..nLogins : loginSess[m] = s}) = 1
            /\ \A c \in batch :
                 /\ conn'[c].pc = "idle"
                 /\ resC'[c].kind # "none"
                 /\ \A d \in batch : resC'[d] = resC'[c]
                 /\ resC'[c].kind = "return" => resC'[c].val = TokenOf(l)
                 /\ resC'[c].kind = "return" => token'[s] = TokenOf(l)
                 /\ resC'[c].kind = "raise" => resC'[c].val = ErrorOf(l)
       ]_vars

\* two calls of one undisturbed batch were handed the same token
SingleFlightWitness ==
    /\ ev.op = "LoginSettle"
    /\ ev.arg = "batch"
    /\ resC["A"].kind = "return"
    /\ resC["B"] = resC["A"]
    /\ nLogins = 1

\* C2: at most one login per key is in flight, counting the logins of
\* every Session object created for the key.
OneLoginInFlightPerKey ==
    \A key \in Keys : Cardinality(InFlight(key)) <= 1

\* C3: the logout operation is invoked only by the last client: when a call
\* of close_connection by c suspends in the logout operation, no client
\* other than c is a member of the Session's client set.
LogoutOnlyByLastClient ==
    [][\A c \in KeyedClients :
         (disc[c].pc = "idle" /\ disc'[c].pc = "logout") =>
             clients[disc'[c].s] \subseteq {c}
      ]_vars

\* C4: idempotent disconnect.  A close_connection by c that directly
\* follows a completed close_connection by c invokes no logout and leaves
\* the registry and every Session's token and client set unchanged.
IdempotentDisconnect ==
    [][\A c \in KeyedClients :
         ( /\ ev.op \in {"close_connection", "LogoutSettle"}
           /\ ev.who = c
           /\ resD[c].kind = "return"
           /\ ev'.op = "close_connection"
           /\ ev'.who = c ) =>
             /\ disc'[c].pc = "idle"
             /\ sessions' = sessions
             /\ token' = token
             /\ clients' = clients
      ]_vars

\* C5: close_connection of a client with a key never raises.
DisconnectNeverRaises ==
    \A c \in KeyedClients : resD[c].kind # "raise"

\* C6: every call that joined a login in flight ends with the same outcome
\* as the call that started that login.
JoinersShareOutcome ==
    [][ev'.op = "LoginSettle" =>
        \A c, d \in Clients :
            ( /\ conn[c].pc = "wait" /\ conn[c].l = ev'.who
              /\ conn[d].pc = "login" /\ conn[d].l = ev'.who ) =>
                resC'[c] = resC'[d]
      ]_vars

\* C7: reference counting.  With two clients on a Session that holds a
\* token and no call suspended, close_connection by one of them invokes no
\* logout and keeps the token and the registry entry, leaving the other as
\* the only client; the other's close_connection, coming next, invokes the
\* logout operation once, and when that logout ends next, the token is
\* cleared and the key is gone from the registry.
ReferenceCounting ==
    [][\A key \in Keys :
         (ev'.op \in {"close_connection", "LogoutSettle"}
            /\ ClientKey(ev'.who) = key) =>
         LET c == ev'.who
             s == IF ev'.op = "close_connection" THEN sessions[key] ELSE disc[c].s
         IN  /\ (ev'.op = "close_connection" /\ refc'[key] = 1) =>
                   /\ InLogout(key)' = {}
                   /\ resD'[c] = Returned(None)
                   /\ token'[s] = token[s]
                   /\ sessions'[key] = s
                   /\ clients'[s] = clients[s] \ {c}
                   /\ Cardinality(clients'[s]) = 1
             /\ (ev'.op = "close_connection" /\ refc'[key] = 2) =>
                   /\ InLogout(key)' = {c}
                   /\ clients[s] = {c}
                   /\ token'[s] = token[s]
                   /\ sessions'[key] = s
             /\ (ev'.op = "LogoutSettle" /\ refc'[key] = 3) =>
                   /\ InLogout(key)' = {}
                   /\ resD'[c] = Returned(None)
                   /\ token'[s] = None
                   /\ clients'[s] = {}
                   /\ sessions'[key] = 0
      ]_vars

\* both clients have disconnected in turn and the logout of the second ended
ReferenceCountingWitness ==
    /\ refc["k1"] = 3
    /\ ev.op = "LogoutSettle"
    /\ sessions["k1"] = 0

\* C8: token reuse.  init_connection by a client whose key has a registered
\* Session with a token set returns that token at once, starts no login and
\* leaves the client in the Session's client set.
TokenReuse ==
    [][\A c \in KeyedClients :
         LET s == sessions[ClientKey(c)]
         IN  ( /\ ev'.op = "init_connection"
               /\ ev'.who = c
               /\ s # 0
               /\ token[s] # None ) =>
                 /\ resC'[c] = Returned(token[s])
                 /\ conn'[c].pc = "idle"
                 /\ nLogins' = nLogins
                 /\ token' = token
                 /\ c \in clients'[s]
                 /\ sessions' = sessions
      ]_vars

\* a second client joined a Session that already held a token
TokenReuseWitness ==
    /\ ev.op = "init_connection"
    /\ ev.who = "B"
    /\ resC["B"].kind = "return"
    /\ sessions["k1"] # 0
    /\ resC["B"].val = token[sessions["k1"]]
    /\ clients[sessions["k1"]] = {"A", "B"}
    /\ nLogins = 1

\* C9: error isolation.  init_connection by a client whose key is None, or
\* that has no key, raises; the registry is unchanged, no Session is created
\* and no login is started.
ErrorIsolation ==
    [][\A c \in Clients :
         ( /\ ev'.op = "init_connection"
           /\ ev'.who = c
           /\ (~HasKey(c) \/ ClientKey(c) = None) ) =>
             /\ resC'[c].kind = "raise"
             /\ conn'[c].pc = "idle"
             /\ sessions' = sessions
             /\ nSessions' = nSessions
             /\ nLogins' = nLogins
             /\ clients' = clients
      ]_vars

\* the client with key None was refused while another key has a Session
ErrorIsolationWitness ==
    /\ ev.op = "init_connection"
    /\ ev.who = "N"
    /\ resC["N"] = Raised("EmptyKey")
    /\ sessions["k1"] # 0
    /\ sessions[None] = 0

\* C10: logout failure absorption.  When the only client of a Session is
\* suspended in a logout operation that raises, its close_connection ends
\* without error, the token is cleared, the client is removed from the
\* client set and the key is gone from the registry.
LogoutFailureAbsorbed ==
    [][\A c \in KeyedClients :
         ( /\ ev'.op = "LogoutSettle"
           /\ ev'.who = c
           /\ ev'.arg = "raise"
           /\ clients[disc[c].s] = {c} ) =>
             /\ resD'[c] = Returned(None)
             /\ token'[disc[c].s] = None
             /\ c \notin clients'[disc[c].s]
             /\ sessions'[ClientKey(c)] = 0
      ]_vars

\* the last login of Session s failed and no login has been started since
LoginFailed(s) ==
    /\ login_d[s] # 0
    /\ called[login_d[s]]
    /\ token[s] = None
    /\ login_error[s] # None

\* C11: fail-open membership.  A client leaves a Session's client set only
\* by its own close_connection; the calls a failing login ends leave their
\* clients attached; and a registered Session whose login failed, with
\* clients attached, leaves the registry only by a close_connection of one
\* of its clients (or by remove_connection).
FailOpenMembership ==
    [][/\ \A s \in SessionIds : \A c \in clients[s] \ clients'[s] :
            ev'.who = c /\ ev'.op \in {"close_connection", "LogoutSettle"}
       /\ \A c \in KeyedClients :
            (ev'.op = "LoginSettle" /\ resC'[c].kind = "raise"
               /\ c \in clients[conn[c].s]) => c \in clients'[conn[c].s]
       /\ \A key \in Keys :
            LET s == sessions[key]
            IN  ( /\ s # 0
                  /\ LoginFailed(s)
                  /\ clients[s] # {}
                  /\ sessions'[key] # s
                  /\ ev'.op # "remove_connection" ) =>
                    ev'.who \in clients[s]
      ]_vars

\* the Session objects created for a key
SessionsOf(key) == {s \in 1..nSessions : skey[s] = key}

\* C12: once every client of a key has left the Sessions created for the
\* key, the next init_connection for the key finds no registered Session:
\* it creates and registers a new Session, starts a login on it and is
\* handed nothing before that login fires.
FreshAfterEviction ==
    [][\A c \in KeyedClients :
         LET key == ClientKey(c)
         IN  ( /\ ev'.op = "init_connection"
               /\ ev'.who = c
               /\ SessionsOf(key) # {}
               /\ \A s \in SessionsOf(key) : clients[s] = {} ) =>
                 /\ sessions[key] = 0
                 /\ nSessions' = nSessions + 1
                 /\ sessions'[key] = nSessions + 1
                 /\ nLogins' = nLogins + 1
                 /\ conn'[c] = [pc |-> "login", s |-> nSessions + 1,
                                l |-> nLogins + 1]
                 /\ resC'[c].kind = "none"
      ]_vars

\* A connects again after the first Session of k1 lost its last client
FreshAfterEvictionWitness ==
    /\ ev.op = "init_connection"
    /\ ev.who = "A"
    /\ skey[1] = "k1"
    /\ clients[1] = {}
    /\ token[1] = None
    /\ login_error[1] = None
    /\ called[1]
    /\ sessions["k1"] = 2
    /\ conn["A"] = [pc |-> "login", s |-> 2, l |-> 2]
    /\ \A c \in Clients : disc[c].pc = "idle"

\* C13: remove_connection drops the registry entry of its key when there is
\* one and changes nothing when there is none; it starts no login and no
\* logout, ends no call, and leaves every Session's token, client set and
\* login, and the entry of every other key, as they were.
RemoveOnlyDropsEntry ==
    [][ev'.op = "remove_connection" =>
        /\ sessions'[ev'.who] = 0
        /\ \A key \in KeySpace \ {ev'.who} : sessions'[key] = sessions[key]
        /\ nLogins' = nLogins
        /\ called' = called
        /\ disc' = disc
        /\ conn' = conn
        /\ resC' = Nothing
        /\ resD' = Nothing
        /\ token' = token
        /\ clients' = clients
        /\ login_d' = login_d
        /\ login_error' = login_error
      ]_vars

\* the entry of k1 was dropped with a client attached and a token held,
\* next to the registered Session of k2
RemoveOnlyDropsEntryWitness ==
    /\ ev.op = "remove_connection"
    /\ ev.who = "k1"
    /\ sessions["k1"] = 0
    /\ sessions["k2"] # 0
    /\ \E s \in SessionsOf("k1") : clients[s] = {"A"} /\ token[s] # None

\* C14: registry invariant.  Between the steps of the calls, every Session
\* in the registry has at least one client in its client set.
RegisteredHasClient ==
    \A key \in Keys : sessions[key] # 0 => clients[sessions[key]] # {}

\* A has left a Session that held a token and two clients, and the Session
\* stays registered for B
RegisteredHasClientWitness ==
    /\ refc["k1"] = 1
    /\ ev.op = "close_connection"
    /\ ev.who = "A"
    /\ resD["A"] = Returned(None)
    /\ sessions["k1"] # 0
    /\ clients[sessions["k1"]] = {"B"}

\* the logins a Session has started that have not fired
InFlightOn(s) == {l \in 1..nLogins : ~called[l] /\ loginSess[l] = s}

\* C15: per-Session invariant.  A Session has at most one login in flight,
\* and none while its token is set.
OneLoginPerSession ==
    \A s \in SessionIds :
        /\ Cardinality(InFlightOn(s)) <= 1
        /\ token[s] # None => InFlightOn(s) = {}

\* B has joined the login A started: one login in flight for two calls
OneLoginPerSessionWitness ==
    /\ conn["A"].pc = "login"
    /\ conn["B"].pc = "wait"
    /\ conn["B"].l = conn["A"].l
    /\ InFlightOn(conn["A"].s) = {conn["A"].l}
    /\ token[conn["A"].s] = None

\* C16: a failed login does not poison the Session.  init_connection on a
\* registered Session whose last login failed starts a new login and is not
\* handed the stored error; and when a login started on a Session that has
\* a stored error succeeds, the call that started it returns the new token,
\* which is stored as the Session's token.
FailedLoginRetried ==
    [][/\ \A c \in KeyedClients :
            LET s == sessions[ClientKey(c)]
            IN  ( /\ ev'.op = "init_connection"
                  /\ ev'.who = c
                  /\ s # 0
                  /\ LoginFailed(s) ) =>
                    /\ nLogins' = nLogins + 1
                    /\ login_d'[s] = nLogins + 1
                    /\ conn'[c] = [pc |-> "login", s |-> s, l |-> nLogins + 1]
                    /\ resC'[c].kind = "none"
       /\ \A l \in LoginIds : \A c \in Starters(l) :
            ( /\ ev'.op = "LoginSettle"
              /\ ev'.who = l
              /\ login_error[loginSess[l]] # None
              /\ resC'[c].kind = "return" ) =>
                /\ resC'[c] = Returned(TokenOf(l))
                /\ token'[loginSess[l]] = TokenOf(l)
       /\ \A l \in LoginIds : \A c \in Starters(l) :
            ( /\ ev'.op = "LoginSettle"
              /\ ev'.who = l
              /\ login_error[loginSess[l]] # None
              /\ resC'[c].kind = "raise" ) =>
                resC'[c] = Raised(ErrorOf(l))
      ]_vars

\* the second login of a Session succeeded after its first one had failed
FailedLoginRetriedWitness ==
    /\ ev.op = "LoginSettle"
    /\ ev.who = 2
    /\ loginSess[1] = loginSess[2]
    /\ login_error[loginSess[2]] = ErrorOf(1)
    /\ token[loginSess[2]] = TokenOf(2)
    /\ \E c \in KeyedClients : resC[c] = Returned(TokenOf(2))

\* client c is attached to the registered Session of its key, which holds
\* token v
HoldsToken(c, v) ==
    LET s == sessions[ClientKey(c)]
    IN  s # 0 /\ c \in clients[s] /\ token[s] = v

\* C17: a client that init_connection has just handed a token, being
\* attached to the registered Session that holds it, is still attached to
\* a registered Session holding that token after any next step that is not
\* a step of a call of its own nor a remove_connection of its key.
TokenStaysValid ==
    [][\A c \in KeyedClients :
         ( /\ resC[c].kind = "return"
           /\ HoldsToken(c, resC[c].val)
           /\ (ev'.op \in {"init_connection", "close_connection",
                           "LogoutSettle"} => ev'.who # c)
           /\ ~(ev'.op = "remove_connection" /\ ev'.who = ClientKey(c)) ) =>
             LET s == sessions'[ClientKey(c)]
             IN  s # 0 /\ c \in clients'[s] /\ token'[s] = resC[c].val
      ]_vars

\* C18: when a step of close_connection by c changes the registry entry of
\* c's key, the entry it removes maps to the Session c was released from.
EvictsOwnSession ==
    [][\A c \in KeyedClients :
         LET key == ClientKey(c)
         IN  /\ ( /\ ev'.op = "LogoutSettle"
                  /\ ev'.who = c
                  /\ sessions'[key] # sessions[key] ) =>
                    sessions[key] = disc[c].s
             /\ ( /\ ev'.op = "close_connection"
                  /\ ev'.who = c
                  /\ sessions'[key] # sessions[key] ) =>
                    c \in clients[sessions[key]] \ clients'[sessions[key]]
      ]_vars

\* C19: no login is leaked.  With init_connection and close_connection
\* only, when no call is suspended (so no login or logout is outstanding)
\* and every client has left every client set, no Session holds a token.
NoLoginLeaked ==
    ( /\ \A c \in Clients : conn[c].pc = "idle" /\ disc[c].pc = "idle"
      /\ \A s \in SessionIds : clients[s] = {} ) =>
        \A s \in SessionIds : token[s] = None

\* C20: liveness.  When every started login and logout operation settles,
\* every suspended init_connection call, that of a coroutine waiting on a
\* login another client started included, ends with a token or an error,
\* and every suspended close_connection call ends.
EveryCallEnds ==
    \A c \in Clients :
        /\ (conn[c].pc # "idle") ~>
               (conn[c].pc = "idle" /\ resC[c].kind \in {"return", "raise"})
        /\ (disc[c].pc # "idle") ~>
               (disc[c].pc = "idle" /\ resD[c].kind \in {"return", "raise"})

EveryCallEndsWitness ==
    /\ ev.op = "LoginSettle"
    /\ ev.who = 1
    /\ resC["A"] = Raised(ErrorOf(1))
    /\ resC["B"] = Raised(ErrorOf(1))
    /\ conn["A"].pc = "idle"
    /\ conn["B"].pc = "idle"

====
